---- MODULE Spec2Model ----
(***************************************************************************)
(* Model of the gradient-boosted-tree inference runtime, XGBoostPredictor   *)
(* (src/unnamed/part_004), and of the feature preprocessing pipeline,       *)
(* DataPreprocessor (src/src/components/DataPreprocessor.tsx).              *)
(*                                                                          *)
(* A JavaScript value is a record [t, v].  t is the kind of the value:      *)
(*   "num"      a finite number; v is the number in thousandths            *)
(*              (v = 1500 is 1.5), so every number of the model has three   *)
(*              decimal digits;                                             *)
(*   "negzero"  the number -0;      "nan"  NaN;                             *)
(*   "inf"      +Infinity;          "ninf" -Infinity;                       *)
(*   "undef"    undefined (an absent array element, an array hole);         *)
(*   "str"      a value that is not a number (the string "abc").            *)
(*   "func"     a function (a method inherited from Object.prototype).      *)
(* Array indices, class indices and counts are numbers like any other:      *)
(* index 1 is [t |-> "num", v |-> 1000].                                    *)
(***************************************************************************)
EXTENDS Integers, Sequences, FiniteSets, TLC

\* ------------------------------------------------------------------ bounds
\* predict / predict_proba / clearCache / getFeatureImportances calls made
\* on one Predictor instance
MaxCalls == 2
\* longest feature vector handed to predict / predict_proba
MaxFeatLen == 2
\* loop iterations of traverseTree followed step by step (SpecTraverse)
MaxSteps == 6

\* largest integer a key of a JSON object of the model spells
MaxIndexKey == 10

\* thousandths: the resolution of every number of the model
Scale == 10 * 10 * 10

\* ------------------------------------------------------------ JS values
Num(v) == [t |-> "num", v |-> v]
N(i) == Num(i * Scale)
Tenth(i) == Num(i * (Scale \div 10))
NaN == [t |-> "nan", v |-> 0]
PosInf == [t |-> "inf", v |-> 0]
NegInf == [t |-> "ninf", v |-> 0]
NegZero == [t |-> "negzero", v |-> 0]
Undef == [t |-> "undef", v |-> 0]
StrVal == [t |-> "str", v |-> 0]

Min(a, b) == IF a <= b THEN a ELSE b

\* typeof x === 'number'
IsNumberType(x) == x.t \in {"num", "negzero", "nan", "inf", "ninf"}

\* ToNumber(x), as the arithmetic and relational operators apply it
ToNumber(x) ==
    CASE x.t = "undef" -> NaN
      [] x.t = "str" -> NaN
      [] x.t = "func" -> NaN
      [] x.t = "negzero" -> Num(0)
      [] OTHER -> x

\* isNaN(x)
IsNaN(x) == ToNumber(x).t = "nan"

\* Number.isFinite-style finiteness of a value: a number, not NaN, not infinite
IsFinite(x) == x.t \in {"num", "negzero"}

\* a + b on numbers (and undefined, which converts to NaN)
Add(a, b) ==
    LET x == ToNumber(a)
        y == ToNumber(b)
    IN  CASE x.t = "nan" \/ y.t = "nan" -> NaN
          [] x.t = "inf" -> IF y.t = "ninf" THEN NaN ELSE PosInf
          [] x.t = "ninf" -> IF y.t = "inf" THEN NaN ELSE NegInf
          [] y.t \in {"inf", "ninf"} -> y
          [] OTHER -> Num(x.v + y.v)

\* -a
Neg(a) ==
    LET x == ToNumber(a)
    IN  CASE x.t = "inf" -> NegInf
          [] x.t = "ninf" -> PosInf
          [] x.t = "nan" -> NaN
          [] OTHER -> Num(0 - x.v)

\* a - b
Sub(a, b) == Add(a, Neg(b))

\* a < b : false whenever an operand converts to NaN
Lt(a, b) ==
    LET x == ToNumber(a)
        y == ToNumber(b)
    IN  CASE x.t = "nan" \/ y.t = "nan" -> FALSE
          [] x.t = "inf" -> FALSE
          [] y.t = "ninf" -> FALSE
          [] x.t = "ninf" -> TRUE
          [] y.t = "inf" -> TRUE
          [] OTHER -> x.v < y.v

\* a === b on numbers: NaN equals nothing, -0 equals 0
StrictEq(a, b) ==
    IF IsNumberType(a) /\ IsNumberType(b)
    THEN ToNumber(a).t # "nan" /\ ToNumber(a) = ToNumber(b)
    ELSE a = b

\* a <= b, a > b, a >= b
Le(a, b) == Lt(a, b) \/ (~IsNaN(a) /\ ~IsNaN(b) /\ ToNumber(a) = ToNumber(b))
Gt(a, b) == Lt(b, a)
Ge(a, b) == Le(b, a)

\* a / b for a finite a >= 0 and a finite b > 0 (rounded to the nearest
\* thousandth), NaN when an operand is NaN
Div(a, b) ==
    LET x == ToNumber(a)
        y == ToNumber(b)
    IN  IF x.t = "num" /\ y.t = "num" /\ y.v > 0
        THEN Num((x.v * Scale + (y.v \div 2)) \div y.v)
        ELSE NaN

\* arr[i]: undefined unless i is an integer index inside the array
At(arr, i) ==
    IF i.t \in {"num", "negzero"} /\ i.v % Scale = 0
       /\ (i.v \div Scale) + 1 \in DOMAIN arr
    THEN arr[(i.v \div Scale) + 1]
    ELSE Undef

\* arr.length
Length(arr) == N(Len(arr))

\* ------------------------------------------------- strings and conversions
\* A string of the model document (tree_param.num_feature, num_class,
\* base_score) is the sequence of its characters; the empty sequence is the
\* empty string or an absent field (both are falsy).
DigitChars == <<"0", "1", "2", "3", "4", "5", "6", "7", "8", "9">>
IsDigit(c) == \E d \in DOMAIN DigitChars : DigitChars[d] = c
DigitVal(c) == (CHOOSE d \in DOMAIN DigitChars : DigitChars[d] = c) - 1

\* the position after the longest run of digits of s that starts at i
RECURSIVE DigitsEnd(_, _)
DigitsEnd(s, i) ==
    IF i <= Len(s) /\ IsDigit(s[i]) THEN DigitsEnd(s, i + 1) ELSE i

\* the number the digits s[i..j-1] spell (0 for none)
RECURSIVE DigitsValue(_, _, _)
DigitsValue(s, i, j) ==
    IF j <= i THEN 0 ELSE DigitsValue(s, i, j - 1) * 10 + DigitVal(s[j - 1])

HasSign(s) == Len(s) > 0 /\ s[1] \in {"-", "+"}
SignOf(s) == IF Len(s) > 0 /\ s[1] = "-" THEN 0 - 1 ELSE 1

\* parseInt(s): an optional sign and the longest run of digits after it;
\* whatever follows is ignored; NaN when there is no digit
ParseInt(s) ==
    LET start == IF HasSign(s) THEN 2 ELSE 1
        stop == DigitsEnd(s, start)
    IN  IF stop = start
        THEN NaN
        ELSE Num(SignOf(s) * DigitsValue(s, start, stop) * Scale)

\* parseFloat(s): an optional sign, digits, an optional "." and digits (kept
\* to the thousandth); NaN when there is no digit
ParseFloat(s) ==
    LET start == IF HasSign(s) THEN 2 ELSE 1
        stop == DigitsEnd(s, start)
        dot == stop <= Len(s) /\ s[stop] = "."
        fstop == IF dot THEN DigitsEnd(s, stop + 1) ELSE stop
        d(k) == IF dot /\ stop + k < fstop THEN DigitVal(s[stop + k]) ELSE 0
        frac == d(1) * (Scale \div 10) + d(2) * (Scale \div 100) + d(3)
    IN  IF stop = start /\ (~dot \/ fstop = stop + 1)
        THEN NaN
        ELSE Num(SignOf(s) * (DigitsValue(s, start, stop) * Scale + frac))

\* the decimal digits of the fraction f (thousandths), without trailing zeros
FracStr(f) ==
    LET d1 == f \div (Scale \div 10)
        d2 == (f \div (Scale \div 100)) % 10
        d3 == f % 10
    IN  IF f = 0 THEN ""
        ELSE "." \o ToString(d1)
             \o (IF d2 = 0 /\ d3 = 0 THEN "" ELSE ToString(d2))
             \o (IF d3 = 0 THEN "" ELSE ToString(d3))

\* String(x), as Array.prototype.join applies it to an element: undefined
\* gives the empty string, -0 gives "0"
JsToString(x) ==
    CASE x.t = "nan" -> "NaN"
      [] x.t = "inf" -> "Infinity"
      [] x.t = "ninf" -> "-Infinity"
      [] x.t = "negzero" -> "0"
      [] x.t = "undef" -> ""
      [] x.t = "str" -> "abc"
      [] OTHER ->
            LET a == IF x.v < 0 THEN 0 - x.v ELSE x.v
            IN  (IF x.v < 0 THEN "-" ELSE "")
                \o ToString(a \div Scale) \o FracStr(a % Scale)

\* arr.join(sep)
RECURSIVE Join(_, _)
Join(arr, sep) ==
    IF Len(arr) = 0 THEN ""
    ELSE IF Len(arr) = 1 THEN JsToString(arr[1])
    ELSE JsToString(arr[1]) \o sep \o Join(Tail(arr), sep)

\* ------------------------------------------------------------ Math.exp
\* Math.exp at the model's resolution.  ExpCap (100000) stands for every
\* value so large that 1 / (1 + value) is 0 to the thousandth.
ExpCap == 100 * Scale * Scale

\* p * c for thousandths p >= 0 and c >= 0, cut at ExpCap
MulFix(p, c) == Min(ExpCap, (p \div Scale) * c + (((p % Scale) * c) \div Scale))

\* e^(n/10) for an integer n, by repeated multiplication with e = 2.718 and
\* e^0.1 = 1.105 (n > 0), or with 1/e = 0.368 and e^-0.1 = 0.905 (n < 0);
\* e^12 is above ExpCap and e^-7 is below one thousandth
RECURSIVE ExpTenths(_)
ExpTenths(n) ==
    IF n = 0 THEN Scale
    ELSE IF n >= 120 THEN ExpCap
    ELSE IF n <= 0 - 70 THEN 0
    ELSE IF n >= 10 THEN MulFix(ExpTenths(n - 10), 2718)
    ELSE IF n > 0 THEN MulFix(ExpTenths(n - 1), 1105)
    ELSE IF n <= 0 - 10 THEN MulFix(ExpTenths(n + 10), 368)
    ELSE MulFix(ExpTenths(n + 1), 905)

\* Math.exp(x): e^x = e^(q/10) * e^r with 0 <= r < 0.1, and
\* e^r = 1 + r + r^2/2 to the thousandth
MathExp(x) ==
    LET y == ToNumber(x)
    IN  CASE y.t = "nan" -> NaN
          [] y.t = "inf" -> PosInf
          [] y.t = "ninf" -> Num(0)
          [] OTHER ->
                LET q == y.v \div (Scale \div 10)
                    r == y.v % (Scale \div 10)
                    er == Scale + r + ((r * r) \div (2 * Scale))
                IN  Num(MulFix(ExpTenths(q), er))

\* ------------------------------------------------------------- outcomes
\* What a call does: it returns val (a sequence of values), throws an Error
\* whose message is err, or never returns (kind "hang").
Return(v) == [kind |-> "return", val |-> v, err |-> ""]
Throw(msg) == [kind |-> "throw", val |-> <<>>, err |-> msg]
Hang == [kind |-> "hang", val |-> <<>>, err |-> ""]

\* ---------------------------------------------------------- traverseTree
\* the longest of the tree's parallel arrays
TreeSize(tree) ==
    LET lens == {Len(tree.left_children), Len(tree.right_children),
                 Len(tree.split_indices), Len(tree.split_conditions),
                 Len(tree.base_weights)}
    IN  CHOOSE n \in lens : \A m \in lens : m <= n

\* a loop body that descends right where the code descends left
NextNodeSwapped(tree, features, nodeIndex) ==
    IF Le(At(features, At(tree.split_indices, nodeIndex)),
          At(tree.split_conditions, nodeIndex))
    THEN At(tree.right_children, nodeIndex)
    ELSE At(tree.left_children, nodeIndex)

\* a loop body that descends left only below the threshold
NextNodeStrict(tree, features, nodeIndex) ==
    IF Lt(At(features, At(tree.split_indices, nodeIndex)),
          At(tree.split_conditions, nodeIndex))
    THEN At(tree.left_children, nodeIndex)
    ELSE At(tree.right_children, nodeIndex)

\* the node the loop body moves to from nodeIndex (lines 109-111)
NextNode(tree, features, nodeIndex) ==
    IF Le(At(features, At(tree.split_indices, nodeIndex)),
          At(tree.split_conditions, nodeIndex))
    THEN At(tree.left_children, nodeIndex)
    ELSE At(tree.right_children, nodeIndex)

InvalidFeatureIndexMessage(featureIndex) ==
    "Invalid feature index: " \o JsToString(featureIndex)

\* the loop without the test of lines 105-107
RECURSIVE TraverseFromUnchecked(_, _, _, _)
TraverseFromUnchecked(tree, features, nodeIndex, fuel) ==
    IF fuel = 0 THEN Hang
    ELSE IF StrictEq(At(tree.left_children, nodeIndex), N(0 - 1))
    THEN Return(<<At(tree.base_weights, nodeIndex)>>)
    ELSE TraverseFromUnchecked(tree, features,
                               NextNode(tree, features, nodeIndex), fuel - 1)

\* The while (true) loop from nodeIndex on.  nodeIndex takes at most
\* TreeSize(tree) + 2 different values (the array positions, one value outside
\* them, then undefined for ever), so a loop that has not ended after fuel =
\* TreeSize(tree) + 3 iterations repeats a node and never ends.
RECURSIVE TraverseFrom(_, _, _, _)
TraverseFrom(tree, features, nodeIndex, fuel) ==
    IF fuel = 0 THEN Hang
    ELSE IF StrictEq(At(tree.left_children, nodeIndex), N(0 - 1))
    THEN Return(<<At(tree.base_weights, nodeIndex)>>)
    ELSE IF Ge(At(tree.split_indices, nodeIndex), Length(features))
    THEN Throw(InvalidFeatureIndexMessage(At(tree.split_indices, nodeIndex)))
    ELSE TraverseFrom(tree, features, NextNode(tree, features, nodeIndex), fuel - 1)

traverseTree(tree, features) ==
    TraverseFrom(tree, features, N(0), TreeSize(tree) + 3)

\* ------------------------------------------------------------ the cache
\* treeCache is a function from cache keys (strings) to values
EmptyCache == [k \in {} |-> Undef]

\* a key that leaves the tree out
getCacheKeyWithoutTree(treeIndex, features) == Join(features, "_")

getCacheKey(treeIndex, features) ==
    ToString(treeIndex) \o "_" \o Join(features, "_")

\* a store that also keeps an entry for a traversal that threw
CacheStoreAlways(cacheKey, result, cache) ==
    [out |-> result,
     cache |-> (cacheKey :> (IF result.kind = "return" THEN result.val[1] ELSE Undef))
                  @@ cache]

\* lines 90-92: result is what traverseTree did; a throw stores nothing
CacheStore(cacheKey, result, cache) ==
    [out |-> result,
     cache |-> IF result.kind = "return"
               THEN (cacheKey :> result.val[1]) @@ cache
               ELSE cache]

\* lines 86-92
CacheLookup(cacheKey, tree, features, cache) ==
    IF cacheKey \in DOMAIN cache
    THEN [out |-> Return(<<cache[cacheKey]>>), cache |-> cache]
    ELSE CacheStore(cacheKey, traverseTree(tree, features), cache)

\* traverseTreeWithCache: the outcome and the cache it leaves.  treeIndex is
\* the 0-based position of tree among the model's trees.
traverseTreeWithCache(treeIndex, tree, features, cache) ==
    CacheLookup(getCacheKey(treeIndex, features), tree, features, cache)

\* the same call with memoization disabled
traverseTreeNoCache(treeIndex, tree, features, cache) ==
    [out |-> traverseTree(tree, features), cache |-> cache]

\* ------------------------------------------------------ sigmoid, softmax
sigmoid(x) ==
    IF Lt(x, N(0 - 40)) THEN N(0)
    ELSE IF Gt(x, N(40)) THEN N(1)
    ELSE Div(N(1), Add(N(1), MathExp(Neg(x))))

\* Math.max(...arr): -Infinity for no argument, NaN when an argument is NaN
\* or undefined
RECURSIVE MathMax(_)
MathMax(arr) ==
    IF Len(arr) = 0 THEN NegInf
    ELSE LET h == ToNumber(arr[1])
             m == MathMax(Tail(arr))
         IN  IF h.t = "nan" \/ m.t = "nan" THEN NaN
             ELSE IF Lt(h, m) THEN m ELSE h

\* arr.indexOf(x): the first position holding a value === x, -1 for none
IndexOf(arr, x) ==
    IF \E i \in DOMAIN arr : StrictEq(arr[i], x)
    THEN N((CHOOSE i \in DOMAIN arr :
              /\ StrictEq(arr[i], x)
              /\ \A j \in 1..(i - 1) : ~StrictEq(arr[j], x)) - 1)
    ELSE N(0 - 1)

\* the sum of arr, added left to right from 0
RECURSIVE SumOf(_)
SumOf(arr) ==
    IF Len(arr) = 0 THEN N(0)
    ELSE Add(SumOf(SubSeq(arr, 1, Len(arr) - 1)), arr[Len(arr)])

\* lines 126-130: the exponentials of the scores shifted by maxScore
ExpScores(scores, maxScore) ==
    [i \in DOMAIN scores |->
        IF Lt(Sub(scores[i], maxScore), N(0 - 40))
        THEN N(0)
        ELSE MathExp(Sub(scores[i], maxScore))]

\* line 132
SumOrOne(sumExp) == IF StrictEq(sumExp, N(0)) THEN N(1) ELSE sumExp

\* lines 133-135
DivideAll(expScores, sumExp) ==
    [i \in DOMAIN expScores |-> Div(expScores[i], sumExp)]

Normalize(expScores) == DivideAll(expScores, SumOrOne(SumOf(expScores)))

softmax(scores) == Normalize(ExpScores(scores, MathMax(scores)))

\* ------------------------------------------------------ validateFeatures
FeatureCountMessage(numFeatures, features) ==
    "Expected " \o JsToString(numFeatures) \o " features, got "
    \o ToString(Len(features))

InvalidFeatureValueMessage == "All features must be valid numbers"

\* a validation that rejects only the vectors that are too short
validateFeaturesTooShort(self, features) ==
    IF Lt(Length(features), self.numFeatures)
    THEN Throw(FeatureCountMessage(self.numFeatures, features))
    ELSE IF ~(\A i \in DOMAIN features :
                 IsNumberType(features[i]) /\ ~IsNaN(features[i]))
    THEN Throw(InvalidFeatureValueMessage)
    ELSE Return(<<>>)

\* validateFeatures(features) for an array argument: the outcome (it returns
\* nothing, or throws)
validateFeatures(self, features) ==
    IF ~StrictEq(Length(features), self.numFeatures)
    THEN Throw(FeatureCountMessage(self.numFeatures, features))
    ELSE IF ~(\A i \in DOMAIN features :
                 IsNumberType(features[i]) /\ ~IsNaN(features[i]))
    THEN Throw(InvalidFeatureValueMessage)
    ELSE Return(<<>>)

\* ------------------------------------------------------------ predictRaw
\* memo = TRUE is the code; memo = FALSE is the same predictor with
\* memoization disabled (every tree is traversed, the cache is left alone)
Traverse(memo, treeIndex, tree, features, cache) ==
    IF memo
    THEN traverseTreeWithCache(treeIndex, tree, features, cache)
    ELSE traverseTreeNoCache(treeIndex, tree, features, cache)

RECURSIVE SumTrees(_, _, _, _, _, _)

\* a loop body that adds the weight of tree i twice
SumNextTwice(memo, trees, features, i, sum, r) ==
    IF r.out.kind # "return"
    THEN r
    ELSE SumTrees(memo, trees, features, i + 1,
                  Add(Add(sum, r.out.val[1]), r.out.val[1]), r.cache)

\* line 159: r is what traverseTreeWithCache did for tree i
SumNext(memo, trees, features, i, sum, r) ==
    IF r.out.kind # "return"
    THEN r
    ELSE SumTrees(memo, trees, features, i + 1, Add(sum, r.out.val[1]), r.cache)

\* lines 158-161: the loop from tree i (0-based) on, sum being the sum so far
SumTrees(memo, trees, features, i, sum, cache) ==
    IF i >= Len(trees)
    THEN [out |-> Return(<<sum>>), cache |-> cache]
    ELSE SumNext(memo, trees, features, i, sum,
                 Traverse(memo, i, trees[i + 1], features, cache))

\* margins[classIndex] += w.  An index past the end grows the array (the
\* positions in between are holes) and stores undefined + w = NaN; a
\* classIndex that is no array index (undefined, negative, fractional) sets a
\* property and leaves the elements alone.
AddAt(margins, classIndex, w) ==
    IF classIndex.t \in {"num", "negzero"} /\ classIndex.v % Scale = 0
       /\ classIndex.v >= 0
    THEN LET k == (classIndex.v \div Scale) + 1
         IN  IF k <= Len(margins)
             THEN [margins EXCEPT ![k] = Add(@, w)]
             ELSE [j \in 1..k |->
                      IF j <= Len(margins) THEN margins[j]
                      ELSE IF j < k THEN Undef
                      ELSE Add(Undef, w)]
    ELSE margins

RECURSIVE AccumulateTrees(_, _, _, _, _, _, _)

\* lines 165-166: r is what traverseTreeWithCache did for tree i
AccumulateNext(memo, trees, treeInfo, features, i, margins, r) ==
    IF r.out.kind # "return"
    THEN r
    ELSE AccumulateTrees(memo, trees, treeInfo, features, i + 1,
                         AddAt(margins, At(treeInfo, N(i)), r.out.val[1]), r.cache)

\* lines 164-168: the loop from tree i (0-based) on
AccumulateTrees(memo, trees, treeInfo, features, i, margins, cache) ==
    IF i >= Len(trees)
    THEN [out |-> Return(margins), cache |-> cache]
    ELSE AccumulateNext(memo, trees, treeInfo, features, i, margins,
                        Traverse(memo, i, trees[i + 1], features, cache))

\* new Array(n) succeeds for an integer n >= 0
IsArrayLength(n) == n.t = "num" /\ n.v >= 0 /\ n.v % Scale = 0

InvalidArrayLengthMessage == "Invalid array length"

\* predictRaw(features): the margins and the cache the call leaves
predictRawWith(memo, self, features, cache) ==
    IF StrictEq(self.numClasses, N(1))
    THEN SumTrees(memo, self.model.trees, features, 0, self.baseScore, cache)
    ELSE IF ~IsArrayLength(self.numClasses)
    THEN [out |-> Throw(InvalidArrayLengthMessage), cache |-> cache]
    ELSE AccumulateTrees(memo, self.model.trees, self.model.tree_info, features, 0,
                         [j \in 1..(self.numClasses.v \div Scale) |-> N(0)], cache)

\* ------------------------------------------------ predict_proba, predict
\* line 178
TwoClass(probability) == <<Sub(N(1), probability), probability>>

\* lines 176-181: m is what predictRaw did
Link(self, m) ==
    IF m.out.kind # "return"
    THEN m
    ELSE [out |-> Return(IF StrictEq(self.numClasses, N(1))
                         THEN TwoClass(sigmoid(m.out.val[1]))
                         ELSE softmax(m.out.val)),
          cache |-> m.cache]

predictProbaWith(memo, self, features, cache) ==
    IF validateFeatures(self, features).kind # "return"
    THEN [out |-> validateFeatures(self, features), cache |-> cache]
    ELSE Link(self, predictRawWith(memo, self, features, cache))

\* line 145: p is what predict_proba did
Threshold(p) ==
    IF p.out.kind # "return"
    THEN p
    ELSE [out |-> Return(<<IF Ge(At(p.out.val, N(1)), Tenth(5)) THEN N(1) ELSE N(0)>>),
          cache |-> p.cache]

\* lines 147-148: m is what predictRaw did
ArgMax(m) ==
    IF m.out.kind # "return"
    THEN m
    ELSE [out |-> Return(<<IndexOf(m.out.val, MathMax(m.out.val))>>),
          cache |-> m.cache]

predictWith(memo, self, features, cache) ==
    IF validateFeatures(self, features).kind # "return"
    THEN [out |-> validateFeatures(self, features), cache |-> cache]
    ELSE IF StrictEq(self.numClasses, N(1))
    THEN Threshold(predictProbaWith(memo, self, features, cache))
    ELSE ArgMax(predictRawWith(memo, self, features, cache))

predict(self, features, cache) == predictWith(TRUE, self, features, cache)

predict_proba(self, features, cache) == predictProbaWith(TRUE, self, features, cache)

\* ------------------------------------------------- getFeatureImportances
\* lines 202-209: how many entries of the trees' split_indices arrays are k
SplitCount(trees, k) ==
    LET hits(t) == {i \in DOMAIN trees[t].split_indices :
                       StrictEq(trees[t].split_indices[i], N(k))}
        RECURSIVE upTo(_)
        upTo(t) == IF t = 0 THEN 0 ELSE upTo(t - 1) + Cardinality(hits(t))
    IN  upTo(Len(trees))

\* line 212
NormalizeCounts(importances, sum) ==
    [k \in DOMAIN importances |->
        IF Gt(sum, N(0)) THEN Div(importances[k], sum) ELSE N(0)]

\* lines 199-209
CountSplits(self) ==
    [k \in 1..(self.numFeatures.v \div Scale) |->
        N(SplitCount(self.model.trees, k - 1))]

Importances(importances) == Return(NormalizeCounts(importances, SumOf(importances)))

getFeatureImportances(self) ==
    IF ~IsArrayLength(self.numFeatures)
    THEN Throw(InvalidArrayLengthMessage)
    ELSE Importances(CountSplits(self))

\* getModelInfo(): numClasses, numFeatures, numTrees, objective, featureNames
\* (feature_names || [] is the empty list when the field is absent) and
\* baseScore
getModelInfo(self) ==
    Return(<<self.numClasses, self.numFeatures, Length(self.model.trees),
             self.objective, self.model.feature_names, self.baseScore>>)

\* ---------------------------------------------------------- constructor
\* A model document (modelJson): parses says whether JSON.parse accepts it;
\* objective is learner.objective.name ("" when absent); num_class is
\* learner.objective.softmax_multiclass_param.num_class and base_score is
\* learner.attributes.base_score (<<>> when absent); trees and tree_info are
\* learner.gradient_booster.model.trees and .tree_info; feature_names is
\* learner.feature_names (<<>> when absent).
Doc(objective, num_class, trees, tree_info, base_score) ==
    [parses |-> TRUE, objective |-> objective, num_class |-> num_class,
     trees |-> trees, tree_info |-> tree_info, base_score |-> base_score,
     feature_names |-> <<>>]

NotJson == [Doc("", <<>>, <<>>, <<>>, <<>>) EXCEPT !.parses = FALSE]

\* s || dflt on strings
OrDefault(s, dflt) == IF s = <<>> THEN dflt ELSE s

InitFailedMessage(msg) == "Failed to initialize XGBoost model: " \o msg

\* a derivation that reads the multiclass parameter whatever the objective is
ClassesOfAnyObjective(modelJson) ==
    ParseInt(OrDefault(modelJson.num_class, <<"2">>))

\* lines 60-64
ClassesOf(modelJson) ==
    IF modelJson.objective \in {"multi:softmax", "multi:softprob"}
    THEN ParseInt(OrDefault(modelJson.num_class, <<"2">>))
    ELSE N(1)

\* lines 66-70, the trees being non-empty
FeaturesOf(modelJson) == ParseInt(modelJson.trees[1].num_feature)

\* line 73
BaseScoreOf(modelJson) ==
    ParseFloat(OrDefault(modelJson.base_score, <<"0", ".", "5">>))

\* the error the constructor throws for modelJson, "" when it throws none
ConstructorError(modelJson) ==
    IF ~modelJson.parses
    THEN InitFailedMessage("Unexpected token")
    ELSE IF modelJson.objective = ""
    THEN InitFailedMessage("Invalid model format: missing objective")
    ELSE IF Len(modelJson.trees) = 0
    THEN InitFailedMessage("Model contains no trees")
    ELSE ""

\* the fields of the instance new XGBoostPredictor(modelJson) yields
NewPredictor(modelJson) ==
    [model |-> modelJson,
     objective |-> modelJson.objective,
     numClasses |-> ClassesOf(modelJson),
     numFeatures |-> FeaturesOf(modelJson),
     baseScore |-> BaseScoreOf(modelJson),
     treeCache |-> EmptyCache]

\* --------------------------------------------------------- model documents
Ints(s) == [i \in DOMAIN s |-> N(s[i])]
Tenths(s) == [i \in DOMAIN s |-> Tenth(s[i])]

\* a tree of one leaf of weight w (tenths)
Leaf(w, num_feature) ==
    [left_children |-> Ints(<<0 - 1>>), right_children |-> Ints(<<0 - 1>>),
     split_indices |-> Ints(<<0>>), split_conditions |-> Tenths(<<w>>),
     base_weights |-> Tenths(<<w>>), num_feature |-> num_feature]

\* a root that splits on feature f at threshold thr (tenths) over two leaves
\* of weights wl and wr (tenths)
Stump(f, thr, wl, wr, num_feature) ==
    [left_children |-> Ints(<<1, 0 - 1, 0 - 1>>),
     right_children |-> Ints(<<2, 0 - 1, 0 - 1>>),
     split_indices |-> Ints(<<f, 0, 0>>),
     split_conditions |-> Tenths(<<thr, wl, wr>>),
     base_weights |-> Tenths(<<0, wl, wr>>), num_feature |-> num_feature]

\* a stump whose left child is the root itself
CyclicTree(num_feature) ==
    [Stump(0, 100, 0 - 10, 10, num_feature) EXCEPT !.left_children = Ints(<<0, 0 - 1, 0 - 1>>)]

\* a stump whose right child is no node of the tree
DanglingTree(num_feature) ==
    [Stump(0, 100, 0 - 10, 10, num_feature) EXCEPT !.right_children = Ints(<<5, 0 - 1, 0 - 1>>)]

One == <<"1">>
Two == <<"2">>

\* tree lists of single-output models over one feature
TreeLists1 ==
    { <<Stump(0, 100, 0 - 10, 10, One)>>,
      <<Leaf(2, One)>>,
      <<Leaf(500, One), Leaf(5, One)>>,
      <<Leaf(0 - 500, One)>>,
      <<Stump(0, 100, 0 - 10, 10, One), Stump(0, 0, 2, 9, One)>>,
      <<Stump(0, 100, 0 - 10, 10, One), Stump(3, 100, 2, 9, One)>>,
      <<CyclicTree(One)>>,
      <<Leaf(2, One), DanglingTree(One)>> }

\* tree lists over two features
TreeLists2 ==
    { <<Stump(0, 100, 0 - 10, 10, Two), Stump(1, 100, 2, 9, Two)>>,
      <<Stump(1, 100, 0 - 10, 10, Two), Leaf(2, Two)>> }

\* tree_param.num_feature strings of the first tree
NumFeatureStrings ==
    { <<"a", "b", "c">>, <<"0">>, <<"-", "3">>, <<"1", "x">>, <<>> }

SingleOutputDocs ==
    { Doc("binary:logistic", <<>>, ts, <<>>, <<>>) : ts \in TreeLists1 \cup TreeLists2 }
    \cup { Doc("reg:squarederror", <<>>, <<Stump(0, 100, 0 - 10, 10, One)>>, <<>>, bs) :
             bs \in { <<>>, <<"1", ".", "5">>, <<"a", "b", "c">> } }
    \cup { Doc("binary:logistic", <<>>, <<Stump(0, 100, 0 - 10, 10, nf)>>, <<>>, <<>>) :
             nf \in NumFeatureStrings }

\* multiclass documents: num_class, trees, tree_info
MulticlassDocs ==
    { Doc("multi:softprob", nc, <<Leaf(2, One), Leaf(9, One)>>, Ints(<<0, 1>>), <<>>) :
        nc \in {Two, <<>>, <<"3">>, <<"1">>, <<"0">>, <<"a", "b", "c">>} }
    \cup { Doc("multi:softmax", <<"3">>, ts, ti, <<>>) :
             ts \in { <<Leaf(2, One), Leaf(2, One)>>,
                      <<Stump(0, 100, 0 - 10, 10, One), Stump(0, 100, 10, 0 - 10, One)>>,
                      <<Leaf(500, One), Leaf(0 - 500, One)>> },
             ti \in { Ints(<<1, 2>>), Ints(<<0, 3>>), Ints(<<2>>), Ints(<<0 - 1, 1>>) } }
    \cup { Doc("multi:softprob", Two,
               <<Stump(0, 100, 0 - 10, 10, Two), Stump(1, 100, 2, 9, Two)>>,
               Ints(<<0, 1>>), <<>>) }

Artifacts ==
    { NotJson,
      [Doc("binary:logistic", <<>>, <<Leaf(2, One)>>, <<>>, <<"1", ".", "5">>)
          EXCEPT !.feature_names = <<"age">>],
      Doc("", <<>>, <<Leaf(2, One)>>, <<>>, <<>>),
      Doc("binary:logistic", <<>>, <<>>, <<>>, <<>>),
      Doc("multi:softprob", Two, <<>>, <<>>, <<>>) }
    \cup SingleOutputDocs \cup MulticlassDocs

\* ------------------------------------------------------- feature vectors
OrdinaryValues == { N(5), N(15) }
SpecialValues == { N(0), NegZero, PosInf, NegInf, NaN, StrVal }

\* the vectors of at most MaxFeatLen elements: ordinary values, after a first
\* element that is any value
FeatureVectors ==
    UNION { { f \in [1..n -> OrdinaryValues \cup SpecialValues] :
                \A i \in 2..n : f[i] \in OrdinaryValues } :
            n \in 0..MaxFeatLen }

\* ====================================================== DataPreprocessor
\* Model of the feature preprocessing pipeline, DataPreprocessor
\* (src/src/components/DataPreprocessor.tsx).
\*
\* A JSON object is the sequence of its entries [key, val] in the order of
\* the document.  A raw input value is a record [k, chars, num]: a string
\* (k = "str", chars its characters), a number (k = "num", num the number) or
\* a method inherited from Object.prototype (k = "func", chars its name).

\* the methods every object inherits from Object.prototype: key in obj holds
\* for them, and obj[key] is a function, whatever obj's own keys are
ObjectPrototypeKeys ==
    { "constructor", "hasOwnProperty", "isPrototypeOf", "propertyIsEnumerable",
      "toLocaleString", "toString", "valueOf" }

Func == [t |-> "func", v |-> 0]

Entry(key, val) == [key |-> key, val |-> val]

HasOwn(obj, key) == \E i \in DOMAIN obj : obj[i].key = key

\* key in obj
In(key, obj) == HasOwn(obj, key) \/ key \in ObjectPrototypeKeys

\* obj[key]: the own value, inherited for an inherited method, else dflt
Get(obj, key, inherited, dflt) ==
    IF HasOwn(obj, key)
    THEN obj[CHOOSE i \in DOMAIN obj : obj[i].key = key].val
    ELSE IF key \in ObjectPrototypeKeys THEN inherited
    ELSE dflt

\* key is an integer index ("0", "1", ...): Object.keys lists such keys
\* first, in ascending numeric order, whatever their place in the document
IsIndexKey(key) == \E i \in 0..MaxIndexKey : ToString(i) = key
IndexOfKey(key) == CHOOSE i \in 0..MaxIndexKey : ToString(i) = key

EntryIsIndex(e) == IsIndexKey(e.key)
EntryIsName(e) == ~IsIndexKey(e.key)
EntryBefore(a, b) == IndexOfKey(a.key) < IndexOfKey(b.key)

\* Object.entries(obj): integer keys ascending, then the other keys in
\* insertion order
ObjectEntries(obj) ==
    SortSeq(SelectSeq(obj, EntryIsIndex), EntryBefore) \o SelectSeq(obj, EntryIsName)

KeysOfEntries(entries) == [i \in DOMAIN entries |-> entries[i].key]

\* Object.keys(obj)
ObjectKeys(obj) == KeysOfEntries(ObjectEntries(obj))

\* keys[0] used as a property name: "undefined" for an empty array
FirstKey(keys) == IF Len(keys) = 0 THEN "undefined" ELSE keys[1]

\* raw input values
RawStr(chars) == [k |-> "str", chars |-> chars, num |-> NaN]
RawNum(x) == [k |-> "num", chars |-> <<>>, num |-> x]
RawFunc(name) == [k |-> "func", chars |-> <<name>>, num |-> NaN]

\* the string of a sequence of characters
RECURSIVE Concat(_)
Concat(chars) == IF Len(chars) = 0 THEN "" ELSE chars[1] \o Concat(Tail(chars))

\* String(f) for an inherited method f
FuncString(name) ==
    "function " \o (IF name = "constructor" THEN "Object" ELSE name)
    \o "() { [native code] }"

\* String(value)
StringOf(value) ==
    CASE value.k = "str" -> Concat(value.chars)
      [] value.k = "num" -> JsToString(value.num)
      [] OTHER -> FuncString(value.chars[1])

\* chars without its leading and trailing blanks
RECURSIVE Trim(_)
Trim(chars) ==
    IF Len(chars) = 0 THEN chars
    ELSE IF chars[1] = " " THEN Trim(Tail(chars))
    ELSE IF chars[Len(chars)] = " " THEN Trim(SubSeq(chars, 1, Len(chars) - 1))
    ELSE chars

\* all of s from position start on is a decimal literal: digits, or digits
\* "." digits with a digit on at least one side
IsDecimalLiteral(s, start) ==
    \/ DigitsEnd(s, start) = Len(s) + 1 /\ Len(s) >= start
    \/ /\ DigitsEnd(s, start) <= Len(s)
       /\ s[DigitsEnd(s, start)] = "."
       /\ DigitsEnd(s, DigitsEnd(s, start) + 1) = Len(s) + 1
       /\ Len(s) > start

\* Number(s) for a trimmed string s without exponent or radix prefix: 0 for
\* the empty string, the number s spells when all of s is a signed decimal
\* literal (kept to the thousandth) or Infinity, NaN otherwise
NumberOfTrimmed(s) ==
    IF Len(s) = 0 THEN N(0)
    ELSE IF IsDecimalLiteral(s, IF HasSign(s) THEN 2 ELSE 1)
    THEN (IF s[1] = "-" /\ ParseFloat(s) = N(0) THEN NegZero ELSE ParseFloat(s))
    ELSE IF Concat(s) \in {"Infinity", "+Infinity"} THEN PosInf
    ELSE IF Concat(s) = "-Infinity" THEN NegInf
    ELSE NaN

\* Number(value)
NumberOf(value) ==
    CASE value.k = "str" -> NumberOfTrimmed(Trim(value.chars))
      [] value.k = "num" -> value.num
      [] OTHER -> NaN

\* a / b: NaN when an operand is NaN, for 0 / 0 and for infinity / infinity;
\* an infinity for a non-zero number over 0; else the quotient rounded to the
\* nearest thousandth (a zero divisor counts as +0)
Quot(a, b) ==
    LET x == ToNumber(a)
        y == ToNumber(b)
        ax == IF x.v < 0 THEN 0 - x.v ELSE x.v
        ay == IF y.v < 0 THEN 0 - y.v ELSE y.v
        neg == (Lt(x, N(0)) /\ ~Lt(y, N(0))) \/ (~Lt(x, N(0)) /\ Lt(y, N(0)))
    IN  CASE x.t = "nan" \/ y.t = "nan" -> NaN
          [] x.t \in {"inf", "ninf"} ->
                IF y.t \in {"inf", "ninf"} THEN NaN
                ELSE IF neg THEN NegInf ELSE PosInf
          [] y.t \in {"inf", "ninf"} -> N(0)
          [] y.v = 0 ->
                IF x.v = 0 THEN NaN ELSE IF neg THEN NegInf ELSE PosInf
          [] OTHER ->
                Num((IF neg THEN 0 - 1 ELSE 1) * ((ax * Scale + (ay \div 2)) \div ay))

standardScaleValue(value, mean, scale) == Quot(Sub(value, mean), scale)

minMaxScaleValue(value, min, scale) == Quot(Sub(value, min), scale)

\* a metadata document (metadataJson): parses says whether JSON.parse accepts
\* it; the four fields are those of PipelineMetadata
Metadata(features, categorical_features, numeric_features, scaling_method) ==
    [parses |-> TRUE, features |-> features,
     categorical_features |-> categorical_features,
     numeric_features |-> numeric_features, scaling_method |-> scaling_method]

NotJsonMetadata == [Metadata(<<>>, <<>>, <<>>, "") EXCEPT !.parses = FALSE]

\* the scaling parameters of a numeric feature; an absent one is undefined
Params(mean, scale, min) == [mean |-> mean, scale |-> scale, min |-> min]
NoParams == Params(Undef, Undef, Undef)

\* key in input, input[key] for an input record (a function from its own
\* names to raw values)
InInput(key, input) == key \in DOMAIN input \/ key \in ObjectPrototypeKeys

InputValue(input, key) ==
    IF key \in DOMAIN input THEN input[key]
    ELSE RawFunc(key)

\* array.join(sep) for an array of strings
RECURSIVE JoinNames(_, _)
JoinNames(names, sep) ==
    IF Len(names) = 0 THEN ""
    ELSE IF Len(names) = 1 THEN names[1]
    ELSE names[1] \o sep \o JoinNames(Tail(names), sep)

MissingFeaturesMessage(missingFeatures) ==
    "Missing required features: " \o JoinNames(missingFeatures, ", ")

InvalidNumericValueMessage(feature, value) ==
    "Invalid numeric value for feature " \o feature \o ": " \o StringOf(value)

\* line 35
MissingFeatures(metadata, input) ==
    LET absent(f) == ~InInput(f, input)
    IN  SelectSeq(metadata.features, absent)

\* lines 46-55: the code of strValue in mapping, that of the first key of
\* Object.keys(mapping) when strValue is no key
EncodeCategory(mapping, strValue) ==
    IF In(strValue, mapping)
    THEN Get(mapping, strValue, Func, Undef)
    ELSE Get(mapping, FirstKey(ObjectKeys(mapping)), Func, Undef)

\* lines 65-80
ScaleNumeric(scaling_method, numValue, params) ==
    IF scaling_method = "standard"
    THEN standardScaleValue(numValue, params.mean, params.scale)
    ELSE minMaxScaleValue(numValue, params.min, params.scale)

\* lines 41-84: the loop from feature i (1-based) on, result being the vector
\* so far
RECURSIVE TransformFrom(_, _, _, _)
TransformFrom(metadata, input, i, result) ==
    IF i > Len(metadata.features)
    THEN Return(result)
    ELSE IF In(metadata.features[i], metadata.categorical_features)
    THEN TransformFrom(metadata, input, i + 1,
            Append(result,
                   EncodeCategory(Get(metadata.categorical_features,
                                      metadata.features[i], <<>>, <<>>),
                                  StringOf(InputValue(input, metadata.features[i])))))
    ELSE IF In(metadata.features[i], metadata.numeric_features)
    THEN IF IsNaN(NumberOf(InputValue(input, metadata.features[i])))
         THEN Throw(InvalidNumericValueMessage(
                        metadata.features[i],
                        InputValue(input, metadata.features[i])))
         ELSE TransformFrom(metadata, input, i + 1,
                 Append(result,
                        ScaleNumeric(metadata.scaling_method,
                                     NumberOf(InputValue(input, metadata.features[i])),
                                     Get(metadata.numeric_features,
                                         metadata.features[i], NoParams, NoParams))))
    ELSE TransformFrom(metadata, input, i + 1, result)

\* transform(input)
transform(metadata, input) ==
    IF Len(MissingFeatures(metadata, input)) > 0
    THEN Throw(MissingFeaturesMessage(MissingFeatures(metadata, input)))
    ELSE TransformFrom(metadata, input, 1, <<>>)

\* lines 94-98
CategoryLabels(entries) ==
    [i \in DOMAIN entries |-> Entry(entries[i].key, ObjectKeys(entries[i].val))]

\* getFeatureInfo(): featureNames, categoricalFeatures, numericFeatures
getFeatureInfo(metadata) ==
    Return(<<metadata.features,
             CategoryLabels(ObjectEntries(metadata.categorical_features)),
             ObjectKeys(metadata.numeric_features)>>)

\* ----------------------------------------------------- metadata documents
Red == <<"r", "e", "d">>
ToStringChars == <<"t", "o", "S", "t", "r", "i", "n", "g">>

ColorCodes == <<Entry("red", N(0)), Entry("blue", N(1))>>
\* categories that spell integers, declared in the order "10", "9"
SizeCodes == <<Entry("10", N(0)), Entry("9", N(1))>>
TeamCodes == <<Entry("ferrari", N(0)), Entry("mclaren", N(1))>>

AgeStandard == Entry("age", Params(N(10), N(5), Undef))
AgeMinMax == Entry("age", Params(Undef, N(10), N(0)))
HeightStandard == Entry("height", Params(N(0), N(2), Undef))

MetadataDocs ==
    { NotJsonMetadata,
      Metadata(<<>>, <<>>, <<>>, "standard"),
      Metadata(<<"age", "color">>, <<Entry("color", ColorCodes)>>, <<AgeStandard>>, "standard"),
      Metadata(<<"color", "age">>, <<Entry("color", ColorCodes)>>, <<AgeMinMax>>, "minmax"),
      Metadata(<<"age", "height">>, <<>>, <<HeightStandard, AgeStandard>>, "standard"),
      \* categories that spell integers
      Metadata(<<"size">>, <<Entry("size", SizeCodes)>>, <<>>, "standard"),
      \* "id" is declared neither categorical nor numeric
      Metadata(<<"id", "age">>, <<>>, <<AgeStandard>>, "standard"),
      \* a feature named like a method of Object.prototype
      Metadata(<<"constructor", "age">>, <<Entry("constructor", TeamCodes)>>,
               <<AgeStandard>>, "standard"),
      \* a categorical feature without categories
      Metadata(<<"color">>, <<Entry("color", <<>>)>>, <<>>, "standard"),
      \* parameter blocks without scale, and with scale 0
      Metadata(<<"age">>, <<>>, <<Entry("age", Params(N(10), Undef, Undef))>>, "standard"),
      Metadata(<<"age">>, <<>>, <<Entry("age", Params(Undef, N(0), N(9)))>>, "minmax"),
      \* a numeric feature named like a method of Object.prototype
      Metadata(<<"constructor">>, <<>>,
               <<Entry("constructor", Params(N(10), N(5), Undef))>>, "standard") }

\* raw values of an input record: the number 9, and the strings "red", "15",
\* "" and "toString"
InputValues ==
    { RawNum(N(9)), RawStr(Red), RawStr(<<"1", "5">>), RawStr(<<>>),
      RawStr(ToStringChars) }

\* the input records over the names of features: each name absent or bound
\* to a raw value
Inputs(features) ==
    UNION { [S -> InputValues] : S \in SUBSET {features[i] : i \in DOMAIN features} }

\* ------------------------------------------------------------------ state
VARIABLES
    instance,     \* "none": no Predictor exists; "live": one was constructed
    model,        \* this.model
    objective,    \* this.objective
    numClasses,   \* this.numClasses
    numFeatures,  \* this.numFeatures
    baseScore,    \* this.baseScore
    treeCache,    \* this.treeCache
    calls,        \* predict / predict_proba calls made on the instance
    last,         \* the last call: its name, arguments, outcome and the
                  \* cache it started from
    trav,         \* one run of traverseTree's loop, followed step by step
    preprocessor, \* "none": no DataPreprocessor exists; "live": one does
    metadata,     \* this.metadata of the DataPreprocessor
    plast,        \* the last DataPreprocessor call: name, arguments, outcome
    ref,          \* a transform call made so far: its input and its outcome
    tester,       \* the ModelTester component: its props and its state
    shell         \* the Electron main process: app, windows, pythonProcess

vars == <<instance, model, objective, numClasses, numFeatures, baseScore,
          treeCache, calls, last, trav, preprocessor, metadata, plast, ref,
          tester, shell>>

\* the state of the Predictor, and that of the DataPreprocessor
xvars == <<instance, model, objective, numClasses, numFeatures, baseScore,
           treeCache, calls, last, trav>>
pvars == <<preprocessor, metadata, plast, ref>>
\* the state of the ModelTester component and of the Electron main process
uvars == <<tester, shell>>

fields == <<model, objective, numClasses, numFeatures, baseScore>>

Self ==
    [model |-> model, objective |-> objective, numClasses |-> numClasses,
     numFeatures |-> numFeatures, baseScore |-> baseScore]

NoCall ==
    [op |-> "none", modelJson |-> NotJson, features |-> <<>>,
     out |-> Return(<<>>), before |-> EmptyCache]

NoTraversal ==
    [treeIndex |-> 0, features |-> <<>>, nodeIndex |-> Undef, steps |-> 0,
     status |-> "idle", result |-> Undef]

\* no instance: the fields hold nothing
NoInstance ==
    /\ instance = "none"
    /\ model = NotJson
    /\ objective = ""
    /\ numClasses = Undef
    /\ numFeatures = Undef
    /\ baseScore = Undef
    /\ treeCache = EmptyCache

NoPreprocessorCall ==
    [op |-> "none", metadataJson |-> NotJsonMetadata, input |-> <<>>,
     out |-> Return(<<>>)]

\* earlier: the call ref holds came before the last call; between: another
\* call was made between the two
NoRef ==
    [set |-> FALSE, input |-> <<>>, out |-> Return(<<>>),
     earlier |-> FALSE, between |-> FALSE]

\* no DataPreprocessor: the field holds nothing
NoPreprocessor ==
    /\ preprocessor = "none"
    /\ metadata = NotJsonMetadata

\* a model as the backend hands it over: base64 says whether atob accepts
\* the text, decoded is the document atob returns
ModelData(base64, decoded) == [base64 |-> base64, decoded |-> decoded]

\* prediction === null
NoPrediction ==
    [set |-> FALSE, predictedValue |-> Undef, probabilities |-> <<>>,
     transformedFeatures |-> <<>>]

\* no ModelTester is mounted
NoTester ==
    [mounted |-> FALSE, modelData |-> ModelData(FALSE, NotJson),
     featureNames |-> <<>>, classMapping |-> <<>>, isRegression |-> FALSE,
     inputValues |-> <<>>, prediction |-> NoPrediction, error |-> ""]

\* the main process is not started
NoShell ==
    [platform |-> "", isPackaged |-> FALSE, state |-> "off", windows |-> 0,
     pythonProcess |-> "null", backend |-> "none", events |-> 0]

Init ==
    /\ NoInstance
    /\ calls = 0
    /\ last = NoCall
    /\ trav = NoTraversal
    /\ NoPreprocessor
    /\ plast = NoPreprocessorCall
    /\ ref = NoRef
    /\ tester = NoTester
    /\ shell = NoShell

\* new XGBoostPredictor(modelJson): a throw inside the constructor leaves no
\* instance behind
Built(p) ==
    /\ instance' = "live"
    /\ model' = p.model
    /\ objective' = p.objective
    /\ numClasses' = p.numClasses
    /\ numFeatures' = p.numFeatures
    /\ baseScore' = p.baseScore
    /\ treeCache' = p.treeCache

\* a constructor whose catch block does not rethrow: the caller gets the
\* instance with the fields assigned before the error
ConstructSwallowingError(modelJson) ==
    /\ instance = "none"
    /\ IF ConstructorError(modelJson) = ""
       THEN /\ Built(NewPredictor(modelJson))
            /\ last' = [NoCall EXCEPT !.op = "constructor", !.modelJson = modelJson]
       ELSE /\ instance' = "live"
            /\ model' = modelJson
            /\ UNCHANGED <<objective, numClasses, numFeatures, baseScore, treeCache>>
            /\ last' = [NoCall EXCEPT !.op = "constructor", !.modelJson = modelJson,
                                     !.out = Throw(ConstructorError(modelJson))]
    /\ UNCHANGED <<calls, trav>>
    /\ UNCHANGED <<pvars, uvars>>

Construct(modelJson) ==
    /\ instance = "none"
    /\ IF ConstructorError(modelJson) = ""
       THEN /\ Built(NewPredictor(modelJson))
            /\ last' = [NoCall EXCEPT !.op = "constructor", !.modelJson = modelJson]
       ELSE /\ UNCHANGED <<instance, fields, treeCache>>
            /\ last' = [NoCall EXCEPT !.op = "constructor", !.modelJson = modelJson,
                                     !.out = Throw(ConstructorError(modelJson))]
    /\ UNCHANGED <<calls, trav>>
    /\ UNCHANGED <<pvars, uvars>>

\* a method can be called on a live instance whose last call returned or threw
Callable == instance = "live" /\ last.out.kind # "hang"

\* what a call of op that did r leaves: the cache, and the record of the call
Called(op, features, r) ==
    /\ treeCache' = r.cache
    /\ last' = [NoCall EXCEPT !.op = op, !.features = features,
                             !.out = r.out, !.before = treeCache]

Predict(features) ==
    /\ Callable
    /\ calls < MaxCalls
    /\ Called("predict", features, predict(Self, features, treeCache))
    /\ calls' = calls + 1
    /\ UNCHANGED <<instance, fields, trav>>
    /\ UNCHANGED <<pvars, uvars>>

PredictProba(features) ==
    /\ Callable
    /\ calls < MaxCalls
    /\ Called("predict_proba", features, predict_proba(Self, features, treeCache))
    /\ calls' = calls + 1
    /\ UNCHANGED <<instance, fields, trav>>
    /\ UNCHANGED <<pvars, uvars>>

GetFeatureImportances ==
    /\ Callable
    /\ last' = [NoCall EXCEPT !.op = "getFeatureImportances",
                             !.out = getFeatureImportances(Self),
                             !.before = treeCache]
    /\ UNCHANGED <<instance, fields, treeCache, calls, trav>>
    /\ UNCHANGED <<pvars, uvars>>

\* a getModelInfo that empties the cache
GetModelInfoClearingCache ==
    /\ Callable
    /\ treeCache' = EmptyCache
    /\ last' = [NoCall EXCEPT !.op = "getModelInfo",
                             !.out = getModelInfo(Self),
                             !.before = treeCache]
    /\ UNCHANGED <<instance, fields, calls, trav>>
    /\ UNCHANGED <<pvars, uvars>>

GetModelInfo ==
    /\ Callable
    /\ last' = [NoCall EXCEPT !.op = "getModelInfo",
                             !.out = getModelInfo(Self),
                             !.before = treeCache]
    /\ UNCHANGED <<instance, fields, treeCache, calls, trav>>
    /\ UNCHANGED <<pvars, uvars>>

ClearCache ==
    /\ Callable
    /\ treeCache' = EmptyCache
    /\ last' = [NoCall EXCEPT !.op = "clearCache", !.before = treeCache]
    /\ UNCHANGED <<instance, fields, calls, trav>>
    /\ UNCHANGED <<pvars, uvars>>

Next ==
    \/ \E modelJson \in Artifacts : Construct(modelJson)
    \/ \E features \in FeatureVectors : Predict(features)
    \/ \E features \in FeatureVectors : PredictProba(features)
    \/ GetFeatureImportances
    \/ GetModelInfo
    \/ ClearCache

Spec == Init /\ [][Next]_vars

\* ------------------------------------- traverseTree, one iteration at a time
\* A constructed Predictor, one of its trees and a feature vector that
\* passes validateFeatures; then the iterations of the while (true) loop.
InitTraverse ==
    \E modelJson \in Artifacts, features \in FeatureVectors :
        /\ ConstructorError(modelJson) = ""
        /\ validateFeatures(NewPredictor(modelJson), features).kind = "return"
        /\ instance = "live"
        /\ model = modelJson
        /\ objective = modelJson.objective
        /\ numClasses = ClassesOf(modelJson)
        /\ numFeatures = FeaturesOf(modelJson)
        /\ baseScore = BaseScoreOf(modelJson)
        /\ treeCache = EmptyCache
        /\ \E treeIndex \in 0..(Len(modelJson.trees) - 1) :
              trav = [treeIndex |-> treeIndex, features |-> features,
                      nodeIndex |-> N(0), steps |-> 0,
                      status |-> "running", result |-> Undef]
        /\ calls = 0
        /\ last = [NoCall EXCEPT !.op = "constructor", !.modelJson = modelJson]
        /\ NoPreprocessor
        /\ plast = NoPreprocessorCall
        /\ ref = NoRef
        /\ tester = NoTester
        /\ shell = NoShell

TravTree == model.trees[trav.treeIndex + 1]

\* lines 100-102
TraverseReturn ==
    /\ trav.status = "running"
    /\ StrictEq(At(TravTree.left_children, trav.nodeIndex), N(0 - 1))
    /\ trav' = [trav EXCEPT !.status = "returned", !.steps = @ + 1,
                            !.result = At(TravTree.base_weights, trav.nodeIndex)]
    /\ UNCHANGED <<instance, fields, treeCache, calls, last>>
    /\ UNCHANGED <<pvars, uvars>>

\* lines 104-107
TraverseThrow ==
    /\ trav.status = "running"
    /\ ~StrictEq(At(TravTree.left_children, trav.nodeIndex), N(0 - 1))
    /\ Ge(At(TravTree.split_indices, trav.nodeIndex), Length(trav.features))
    /\ trav' = [trav EXCEPT !.status = "thrown", !.steps = @ + 1]
    /\ UNCHANGED <<instance, fields, treeCache, calls, last>>
    /\ UNCHANGED <<pvars, uvars>>

\* lines 109-111
TraverseDescend ==
    /\ trav.status = "running"
    /\ trav.steps < MaxSteps
    /\ ~StrictEq(At(TravTree.left_children, trav.nodeIndex), N(0 - 1))
    /\ ~Ge(At(TravTree.split_indices, trav.nodeIndex), Length(trav.features))
    /\ trav' = [trav EXCEPT !.steps = @ + 1,
                            !.nodeIndex = NextNode(TravTree, trav.features, trav.nodeIndex)]
    /\ UNCHANGED <<instance, fields, treeCache, calls, last>>
    /\ UNCHANGED <<pvars, uvars>>

NextTraverse == TraverseReturn \/ TraverseThrow \/ TraverseDescend

SpecTraverse == InitTraverse /\ [][NextTraverse]_vars

\* ------------------------------------------------ DataPreprocessor actions
\* new DataPreprocessor(metadataJson): JSON.parse throws on a document that
\* is no JSON, and no instance results
ConstructPreprocessor(metadataJson) ==
    /\ preprocessor = "none"
    /\ IF metadataJson.parses
       THEN /\ preprocessor' = "live"
            /\ metadata' = metadataJson
            /\ plast' = [NoPreprocessorCall EXCEPT !.op = "constructor",
                                                   !.metadataJson = metadataJson]
       ELSE /\ UNCHANGED <<preprocessor, metadata>>
            /\ plast' = [NoPreprocessorCall EXCEPT !.op = "constructor",
                                                   !.metadataJson = metadataJson,
                                                   !.out = Throw("Unexpected token")]
    /\ UNCHANGED ref
    /\ UNCHANGED <<xvars, uvars>>

\* ref after one more call
Aged(r) ==
    IF r.set THEN [r EXCEPT !.earlier = TRUE, !.between = r.earlier] ELSE r

\* the record of a transform call that did out; ref keeps the call it holds
\* or takes this one
Transformed(input, out) ==
    /\ plast' = [NoPreprocessorCall EXCEPT !.op = "transform", !.input = input,
                                           !.out = out]
    /\ ref' \in {Aged(ref), [NoRef EXCEPT !.set = TRUE, !.input = input, !.out = out]}

\* the category map with strValue added under the next free code
LearnCategory(entry, strValue) ==
    IF In(strValue, entry.val)
    THEN entry
    ELSE Entry(entry.key, Append(entry.val, Entry(strValue, N(Len(entry.val)))))

\* a transform that adds every unseen category to the metadata's category map
TransformLearning(input) ==
    /\ preprocessor = "live"
    /\ Transformed(input, transform(metadata, input))
    /\ metadata' =
          [metadata EXCEPT !.categorical_features =
              [i \in DOMAIN @ |->
                  LearnCategory(@[i], StringOf(InputValue(input, @[i].key)))]]
    /\ UNCHANGED preprocessor
    /\ UNCHANGED <<xvars, uvars>>

Transform(input) ==
    /\ preprocessor = "live"
    /\ Transformed(input, transform(metadata, input))
    /\ UNCHANGED <<preprocessor, metadata>>
    /\ UNCHANGED <<xvars, uvars>>

GetFeatureInfo ==
    /\ preprocessor = "live"
    /\ plast' = [NoPreprocessorCall EXCEPT !.op = "getFeatureInfo",
                                           !.out = getFeatureInfo(metadata)]
    /\ ref' = Aged(ref)
    /\ UNCHANGED <<preprocessor, metadata>>
    /\ UNCHANGED <<xvars, uvars>>

NextPreprocessor ==
    \/ \E metadataJson \in MetadataDocs : ConstructPreprocessor(metadataJson)
    \/ \E input \in Inputs(metadata.features) : Transform(input)
    \/ GetFeatureInfo

SpecPreprocessor == Init /\ [][NextPreprocessor]_vars

\* ============================================================= ModelTester
\* Model of the prediction form (src/src/components/ModelTester.tsx): the
\* component holds a DataPreprocessor made from its preprocessingMetadata
\* prop, and handlePredict transforms the typed values and hands the vector
\* to a Predictor made from its modelData prop.

InvalidModelDataMessage == "Failed to initialize model: Invalid model data"
PreprocessorNotInitializedMessage == "Preprocessor not initialized"

\* lines 74-81: atob and the constructor inside one try block
getPredictor(modelData) ==
    IF modelData.base64 /\ ConstructorError(modelData.decoded) = ""
    THEN Return(<<NewPredictor(modelData.decoded)>>)
    ELSE Throw(InvalidModelDataMessage)

\* the label classMapping holds for class k
ClassLabel(k) == [t |-> "str", v |-> k]

\* line 122: classMapping ? classMapping[predictedClass] : predictedClass
MappedClass(classMapping, predictedClass) ==
    IF Len(classMapping) = 0 THEN predictedClass
    ELSE IF IsNumberType(predictedClass) /\ predictedClass.t = "num"
            /\ predictedClass.v % Scale = 0
            /\ (predictedClass.v \div Scale) + 1 \in DOMAIN classMapping
    THEN classMapping[(predictedClass.v \div Scale) + 1]
    ELSE Undef

\* what handlePredict leaves: the prediction or the error it sets, whether a
\* Predictor was made, the cache of that Predictor and its last call
Handled(prediction, error, made, cache, call) ==
    [prediction |-> prediction, error |-> error, made |-> made, cache |-> cache,
     call |-> call]

PredictorCall(op, features, r, before) ==
    [NoCall EXCEPT !.op = op, !.features = features, !.out = r.out, !.before = before]

\* lines 122-130: q is what predict_proba did after predict did p
WithProbabilities(classMapping, features, p, q) ==
    IF q.out.kind # "return"
    THEN Handled(NoPrediction, q.out.err, TRUE, q.cache,
                 PredictorCall("predict_proba", features, q, p.cache))
    ELSE Handled([set |-> TRUE,
                  predictedValue |-> MappedClass(classMapping, p.out.val[1]),
                  probabilities |-> q.out.val,
                  transformedFeatures |-> features],
                 "", TRUE, q.cache,
                 PredictorCall("predict_proba", features, q, p.cache))

\* lines 118-130: p is what predictor.predict(transformedFeatures) did
WithPrediction(self, isRegression, classMapping, features, p) ==
    IF p.out.kind # "return"
    THEN Handled(NoPrediction, p.out.err, TRUE, p.cache,
                 PredictorCall("predict", features, p, EmptyCache))
    ELSE IF isRegression
    THEN Handled([set |-> TRUE, predictedValue |-> p.out.val[1],
                  probabilities |-> <<>>, transformedFeatures |-> features],
                 "", TRUE, p.cache,
                 PredictorCall("predict", features, p, EmptyCache))
    ELSE WithProbabilities(classMapping, features, p,
                           predict_proba(self, features, p.cache))

\* lines 112-130: made is what getPredictor returned
WithPredictor(made, isRegression, classMapping, features) ==
    IF made.kind # "return"
    THEN Handled(NoPrediction, made.err, FALSE, EmptyCache, NoCall)
    ELSE WithPrediction(made.val[1], isRegression, classMapping, features,
                        predict(made.val[1], features, EmptyCache))

\* lines 103-137: t is what preprocessor.transform(inputValues) did
handlePredict(props, live, t) ==
    IF ~live
    THEN Handled(NoPrediction, PreprocessorNotInitializedMessage, FALSE,
                 EmptyCache, NoCall)
    ELSE IF t.kind # "return"
    THEN Handled(NoPrediction, t.err, FALSE, EmptyCache, NoCall)
    ELSE WithPredictor(getPredictor(props.modelData), props.isRegression,
                       props.classMapping, t.val)

\* the props of the models and class mappings the form is mounted with
TesterModels ==
    { ModelData(FALSE, NotJson),
      ModelData(TRUE, NotJson),
      ModelData(TRUE, Doc("binary:logistic", <<>>,
                          <<Stump(0, 100, 0 - 10, 10, One)>>, <<>>, <<>>)),
      ModelData(TRUE, Doc("reg:squarederror", <<>>,
                          <<Stump(1, 100, 0 - 10, 10, Two)>>, <<>>, <<>>)),
      ModelData(TRUE, Doc("multi:softprob", Two,
                          <<Stump(0, 100, 0 - 10, 10, Two), Stump(1, 100, 2, 9, Two)>>,
                          Ints(<<0, 1>>), <<>>)) }

TesterMappings == { <<>>, <<ClassLabel(0), ClassLabel(1)>> }

\* the texts typed into a field: "red", "15", "" and "toString"
TypedValues ==
    { RawStr(Red), RawStr(<<"1", "5">>), RawStr(<<>>), RawStr(ToStringChars) }

\* lines 39-64: the component is mounted with its props; useMemo makes the
\* DataPreprocessor, or sets the error and keeps null
Mount(modelData, preprocessingMetadata, classMapping, isRegression) ==
    /\ ~tester.mounted
    /\ tester' = [NoTester EXCEPT
                     !.mounted = TRUE, !.modelData = modelData,
                     !.featureNames = preprocessingMetadata.features,
                     !.classMapping = classMapping, !.isRegression = isRegression,
                     !.error = IF preprocessingMetadata.parses THEN ""
                               ELSE "Unexpected token"]
    /\ preprocessor' = IF preprocessingMetadata.parses THEN "live" ELSE "none"
    /\ metadata' = IF preprocessingMetadata.parses THEN preprocessingMetadata
                   ELSE NotJsonMetadata
    /\ plast' = [NoPreprocessorCall EXCEPT
                    !.op = "constructor", !.metadataJson = preprocessingMetadata,
                    !.out = IF preprocessingMetadata.parses THEN Return(<<>>)
                            ELSE Throw("Unexpected token")]
    /\ UNCHANGED <<ref, shell>>
    /\ UNCHANGED xvars

\* lines 83-90
HandleInputChange(feature, value) ==
    /\ tester.mounted
    /\ tester' = [tester EXCEPT !.inputValues = (feature :> value) @@ @,
                                !.prediction = NoPrediction, !.error = ""]
    /\ UNCHANGED <<xvars, pvars, shell>>

\* lines 92-96
ResetForm ==
    /\ tester.mounted
    /\ tester' = [tester EXCEPT !.inputValues = <<>>,
                                !.prediction = NoPrediction, !.error = ""]
    /\ UNCHANGED <<xvars, pvars, shell>>

\* the state handlePredict leaves when it did h, t being what transform did
HandledPredict(t, h) ==
    /\ tester' = [tester EXCEPT !.prediction = h.prediction, !.error = h.error]
    /\ IF preprocessor = "live"
       THEN plast' = [NoPreprocessorCall EXCEPT !.op = "transform",
                                                !.input = tester.inputValues,
                                                !.out = t]
       ELSE UNCHANGED plast
    /\ IF h.made
       THEN /\ Built([NewPredictor(tester.modelData.decoded) EXCEPT
                         !.treeCache = h.cache])
            /\ last' = h.call
       ELSE UNCHANGED <<instance, fields, treeCache, last>>
    /\ UNCHANGED <<calls, trav, preprocessor, metadata, ref, shell>>

\* lines 98-138
HandlePredict ==
    /\ tester.mounted
    /\ HandledPredict(transform(metadata, tester.inputValues),
                      handlePredict(tester, preprocessor = "live",
                                    transform(metadata, tester.inputValues)))

NextTester ==
    \/ \E modelData \in TesterModels, preprocessingMetadata \in MetadataDocs,
          classMapping \in TesterMappings, isRegression \in BOOLEAN :
          Mount(modelData, preprocessingMetadata, classMapping, isRegression)
    \/ \E i \in DOMAIN tester.featureNames, value \in TypedValues :
          HandleInputChange(tester.featureNames[i], value)
    \/ ResetForm
    \/ HandlePredict

SpecTester == Init /\ [][NextTester]_vars

\* ========================================================== Electron shell
\* Model of the main process (src/electron/main.ts): the app, its windows
\* and the backend process it spawns.

\* the events the main process handles in one run
MaxEvents == 20

Platforms == {"darwin", "win32", "linux"}

\* lines 10-23: the program spawn is given
BackendCommand(sh) ==
    IF ~sh.isPackaged THEN "uvicorn"
    ELSE IF sh.platform = "win32" THEN "backend.exe" ELSE "backend"

\* lines 7-32
startPythonBackend(sh) ==
    [sh EXCEPT !.pythonProcess = BackendCommand(sh), !.backend = "running"]

\* lines 34-50
createWindow(sh) == [sh EXCEPT !.windows = @ + 1]

\* lines 58-60: pythonProcess.kill() when pythonProcess is set
KillBackend(sh) ==
    IF sh.pythonProcess # "null" THEN [sh EXCEPT !.backend = "killed"] ELSE sh

\* lines 61-63: app.quit() closes the windows and ends the app
QuitUnlessDarwin(sh) ==
    IF sh.platform # "darwin" THEN [sh EXCEPT !.state = "quit", !.windows = 0] ELSE sh

Handle(sh) == [sh EXCEPT !.events = @ + 1]

\* the main module is loaded: line 5 and the registration of the handlers
Launch(platform, isPackaged) ==
    /\ shell.state = "off"
    /\ shell' = [NoShell EXCEPT !.platform = platform, !.isPackaged = isPackaged,
                                !.state = "starting"]
    /\ UNCHANGED <<xvars, pvars, tester>>

\* lines 52-55
WhenReady ==
    /\ shell.state = "starting"
    /\ shell' = createWindow(startPythonBackend(
                    [Handle(shell) EXCEPT !.state = "ready"]))
    /\ UNCHANGED <<xvars, pvars, tester>>

\* the last window is closed, window-all-closed is emitted: lines 57-64
WindowAllClosed ==
    /\ shell.state = "ready"
    /\ shell.windows = 1
    /\ shell.events < MaxEvents
    /\ shell' = QuitUnlessDarwin(KillBackend(
                    [Handle(shell) EXCEPT !.windows = 0]))
    /\ UNCHANGED <<xvars, pvars, tester>>

\* activate is emitted (macOS: the dock icon is clicked): lines 66-70
Activate ==
    /\ shell.state = "ready"
    /\ shell.platform = "darwin"
    /\ shell.events < MaxEvents
    /\ shell' = IF shell.windows = 0 THEN createWindow(Handle(shell))
                ELSE Handle(shell)
    /\ UNCHANGED <<xvars, pvars, tester>>

NextShell ==
    \/ \E platform \in Platforms, isPackaged \in BOOLEAN : Launch(platform, isPackaged)
    \/ WhenReady
    \/ WindowAllClosed
    \/ Activate

SpecShell == Init /\ [][NextShell]_vars

\* ================================================================= claims
\* the errors the constructor throws (ModelFormatError)
IsModelFormatError(out) ==
    /\ out.kind = "throw"
    /\ out.err \in { InitFailedMessage("Unexpected token"),
                     InitFailedMessage("Invalid model format: missing objective"),
                     InitFailedMessage("Model contains no trees") }

\* v is a probability: a number between 0 and 1
IsProbability(v) == v.t = "num" /\ 0 <= v.v /\ v.v <= Scale

\* the entries of vec sum to 1, up to half a thousandth of rounding an entry
SumsToOne(vec) ==
    /\ SumOf(vec).t = "num"
    /\ 2 * (SumOf(vec).v - Scale) <= Len(vec)
    /\ 2 * (Scale - SumOf(vec).v) <= Len(vec)

\* C1: every vector predict_proba returns holds only values in [0,1] and
\* sums to 1 within tolerance.
C1_ProbaIsDistribution ==
    (last.op = "predict_proba" /\ last.out.kind = "return")
        => /\ \A i \in DOMAIN last.out.val : IsProbability(last.out.val[i])
           /\ SumsToOne(last.out.val)

\* idx is an index at which vec attains its maximum
IsArgMax(vec, idx) ==
    /\ idx.t = "num"
    /\ idx.v % Scale = 0
    /\ (idx.v \div Scale) + 1 \in DOMAIN vec
    /\ \A j \in DOMAIN vec : Le(vec[j], At(vec, idx))

\* C2: on a multiclass Predictor (numClasses > 1), what predict returns is an
\* index at which the vector predict_proba returns for the same features
\* attains its maximum.
C2_PredictIsArgmaxOfProba ==
    (last.op = "predict" /\ last.out.kind = "return" /\ Gt(numClasses, N(1)))
        => IsArgMax(predict_proba(Self, last.features, last.before).out.val,
                    last.out.val[1])

\* C3: every predict and predict_proba call has the outcome (the value
\* returned, the error thrown) of the same call on a Predictor of the same
\* model with memoization disabled, whatever calls came before it.
C3_CacheIsTransparent ==
    /\ last.op = "predict"
          => last.out = predictWith(FALSE, Self, last.features, EmptyCache).out
    /\ last.op = "predict_proba"
          => last.out = predictProbaWith(FALSE, Self, last.features, EmptyCache).out

\* C3 witness: a call that returned and found its first tree in the cache
C3_Witness ==
    /\ last.op \in {"predict", "predict_proba"}
    /\ last.out.kind = "return"
    /\ Len(model.trees) > 1
    /\ getCacheKey(0, last.features) \in DOMAIN last.before

\* C4: predict with a vector whose length is not numFeatures throws the
\* feature-count error and leaves the cache as it was.
C4_WrongLengthThrowsAndKeepsCache ==
    (last.op = "predict" /\ ~StrictEq(Length(last.features), numFeatures))
        => /\ last.out = Throw(FeatureCountMessage(numFeatures, last.features))
           /\ treeCache = last.before

\* C4 witness: such a call on a Predictor whose cache holds entries
C4_Witness ==
    /\ last.op = "predict"
    /\ ~StrictEq(Length(last.features), numFeatures)
    /\ last.out.kind = "throw"
    /\ DOMAIN last.before # {}

\* C5: constructing from a document whose tree list is empty throws a
\* model-format error and leaves no instance.
C5_EmptyTreesFailConstruction ==
    (last.op = "constructor" /\ last.modelJson.parses /\ Len(last.modelJson.trees) = 0)
        => /\ IsModelFormatError(last.out)
           /\ NoInstance

\* C5 witness: a document with an objective and no tree was rejected
C5_Witness ==
    /\ last.op = "constructor"
    /\ last.modelJson.parses
    /\ last.modelJson.objective # ""
    /\ Len(last.modelJson.trees) = 0
    /\ last.out = Throw(InitFailedMessage("Model contains no trees"))

\* n is an integer >= 1
IsPositiveInteger(n) == n.t = "num" /\ n.v >= Scale /\ n.v % Scale = 0

\* C6: construction throws a model-format error when the first tree's
\* num_feature does not parse as a positive integer, so numFeatures of every
\* Predictor is an integer >= 1.
C6_NumFeaturesIsPositive ==
    /\ (/\ last.op = "constructor"
        /\ last.modelJson.parses
        /\ Len(last.modelJson.trees) > 0
        /\ ~IsPositiveInteger(ParseInt(last.modelJson.trees[1].num_feature)))
          => IsModelFormatError(last.out)
    /\ instance = "live" => IsPositiveInteger(numFeatures)

\* C7: predict and predict_proba throw the invalid-feature-value error for a
\* vector of the right length with an element that is not a finite number,
\* and traverse nothing.
C7_NonFiniteIsRejected ==
    (/\ last.op \in {"predict", "predict_proba"}
     /\ StrictEq(Length(last.features), numFeatures)
     /\ \E i \in DOMAIN last.features : ~IsFinite(last.features[i]))
        => /\ last.out = Throw(InvalidFeatureValueMessage)
           /\ treeCache = last.before

\* C8: the loop of traverseTree runs at most as many iterations as the tree
\* has nodes.
C8_TraversalIsBounded == trav.status # "idle" => trav.steps <= TreeSize(TravTree)

\* the internal nodes of tree: those whose left child is not the sentinel
InternalNodes(tree) ==
    {i \in DOMAIN tree.left_children : ~StrictEq(tree.left_children[i], N(0 - 1))}

\* how many internal nodes of the trees split on feature k
RECURSIVE InternalSplitCount(_, _)
InternalSplitCount(trees, k) ==
    IF Len(trees) = 0 THEN 0
    ELSE InternalSplitCount(Tail(trees), k)
         + Cardinality({i \in InternalNodes(trees[1]) :
                           StrictEq(At(trees[1].split_indices, N(i - 1)), N(k))})

\* the importances counted over internal nodes only
InternalImportances(self) ==
    Importances([k \in 1..(self.numFeatures.v \div Scale) |->
                    N(InternalSplitCount(self.model.trees, k - 1))])

\* C9: getFeatureImportances returns, per feature, the share of the
\* internal-node splits that reference it; leaves count for no feature.
C9_ImportancesCountInternalNodes ==
    (last.op = "getFeatureImportances" /\ last.out.kind = "return")
        => last.out = InternalImportances(Self)

\* the ensemble has a split: some tree has an internal node
HasSplit(trees) == \E t \in DOMAIN trees : InternalNodes(trees[t]) # {}

\* C10: the vector getFeatureImportances returns sums to 1 when the ensemble
\* has a split and is all zeros when it has none.
C10_ImportancesSumToOneOrZero ==
    (last.op = "getFeatureImportances" /\ last.out.kind = "return")
        => IF HasSplit(model.trees)
           THEN SumsToOne(last.out.val)
           ELSE \A k \in DOMAIN last.out.val : last.out.val[k] = N(0)

\* the raw margins of the last predict / predict_proba call: what predictRaw
\* returned for its features, from the cache the call started with
LastRaw == predictRawWith(TRUE, Self, last.features, last.before).out

\* the last call was a predict / predict_proba whose features passed
\* validateFeatures
LastValidated ==
    /\ last.op \in {"predict", "predict_proba"}
    /\ validateFeatures(Self, last.features).kind = "return"

\* every tree of the ensemble has a leaf that traversal reaches for features
AllTreesReturn(trees, features) ==
    \A t \in DOMAIN trees : traverseTree(trees[t], features).kind = "return"

\* the worked example: one tree, a root split on feature 0 at threshold 10
\* over a left leaf of weight -1.0 and a right leaf of weight 1.0, base score
\* 0.5, single output
IsExample ==
    /\ instance = "live"
    /\ Len(model.trees) = 1
    /\ model.trees[1].left_children = Ints(<<1, 0 - 1, 0 - 1>>)
    /\ model.trees[1].right_children = Ints(<<2, 0 - 1, 0 - 1>>)
    /\ model.trees[1].split_indices[1] = N(0)
    /\ model.trees[1].split_conditions[1] = N(10)
    /\ model.trees[1].base_weights[2] = N(0 - 1)
    /\ model.trees[1].base_weights[3] = N(1)
    /\ StrictEq(numClasses, N(1))
    /\ baseScore = Tenth(5)
    /\ StrictEq(numFeatures, N(1))

\* C14: on the worked example, predict([5]) has raw margin -0.5 and returns
\* 0, and predict([15]) has raw margin 1.5 and returns 1.
C14_WorkedExample ==
    (IsExample /\ last.op = "predict")
        => /\ last.features = <<N(5)>>
                => /\ LastRaw = Return(<<Tenth(0 - 5)>>)
                   /\ last.out = Return(<<N(0)>>)
           /\ last.features = <<N(15)>>
                => /\ LastRaw = Return(<<Tenth(15)>>)
                   /\ last.out = Return(<<N(1)>>)

\* C14 witness: predict([15]) returned 1 on the example, after predict([5])
\* had cached the left leaf
C14_Witness ==
    /\ IsExample
    /\ last.op = "predict"
    /\ last.features = <<N(15)>>
    /\ last.out = Return(<<N(1)>>)
    /\ getCacheKey(0, <<N(5)>>) \in DOMAIN last.before

\* idx is the first index at which vec attains its maximum
IsFirstArgMax(vec, idx) ==
    /\ IsArgMax(vec, idx)
    /\ \A j \in 1..(idx.v \div Scale) : Lt(vec[j], At(vec, idx))

\* C15: on a multiclass Predictor, what predict returns is the lowest index
\* at which the raw margins attain their maximum.
C15_PredictIsFirstArgmaxOfMargins ==
    (last.op = "predict" /\ last.out.kind = "return" /\ Gt(numClasses, N(1)))
        => IsFirstArgMax(LastRaw.val, last.out.val[1])

\* the nodes the loop visits from nodeIndex on, the index test left aside
RECURSIVE PathFrom(_, _, _, _)
PathFrom(tree, features, nodeIndex, fuel) ==
    IF fuel = 0 \/ StrictEq(At(tree.left_children, nodeIndex), N(0 - 1))
    THEN <<nodeIndex>>
    ELSE <<nodeIndex>>
         \o PathFrom(tree, features, NextNode(tree, features, nodeIndex), fuel - 1)

\* nodeIndex is an internal node whose split feature index is >= the length
\* of features
SplitsPastEnd(tree, features, nodeIndex) ==
    /\ ~StrictEq(At(tree.left_children, nodeIndex), N(0 - 1))
    /\ Ge(At(tree.split_indices, nodeIndex), Length(features))

\* the positions of the path of tree that hold such a node
PastEndPositions(tree, features, path) ==
    {k \in DOMAIN path : SplitsPastEnd(tree, features, path[k])}

\* the split feature index of the first such node
FirstPastEnd(tree, features, path) ==
    At(tree.split_indices,
       path[CHOOSE k \in PastEndPositions(tree, features, path) :
               \A j \in PastEndPositions(tree, features, path) : k <= j])

\* traversal of tree t is reached (the trees before it return) and meets an
\* internal node whose split feature index is >= the length of features
ReachesPastEnd(self, features, t) ==
    /\ StrictEq(self.numClasses, N(1)) \/ IsArrayLength(self.numClasses)
    /\ \A s \in 1..(t - 1) : traverseTree(self.model.trees[s], features).kind = "return"
    /\ PastEndPositions(self.model.trees[t], features,
                        PathFrom(self.model.trees[t], features, N(0),
                                 TreeSize(self.model.trees[t]) + 3)) # {}

\* C16: a predict / predict_proba call whose traversal reaches an internal
\* node with a split feature index >= the vector's length throws the
\* invalid-feature-index error naming that index.
C16_SplitPastEndThrows ==
    LastValidated
        => \A t \in DOMAIN model.trees :
              ReachesPastEnd(Self, last.features, t)
                 => last.out = Throw(InvalidFeatureIndexMessage(
                        FirstPastEnd(model.trees[t], last.features,
                                     PathFrom(model.trees[t], last.features, N(0),
                                              TreeSize(model.trees[t]) + 3))))

\* C16 witness: the second tree of a model splits on feature 3 of a vector of
\* one element, and the call threw
C16_Witness ==
    /\ LastValidated
    /\ Len(model.trees) = 2
    /\ ReachesPastEnd(Self, last.features, 2)
    /\ last.out = Throw(InvalidFeatureIndexMessage(N(3)))

\* v is one of the integers lo..hi
IsIntegerIn(v, lo, hi) ==
    v.t = "num" /\ v.v % Scale = 0 /\ lo <= v.v \div Scale /\ v.v \div Scale <= hi

\* a well-formed tree for vectors of n features: parallel arrays of one
\* length, every node either a leaf or an internal node whose children are
\* later nodes of the tree and whose split feature is one of the n
WellFormedTree(tree, n) ==
    /\ Len(tree.left_children) >= 1
    /\ \A arr \in {tree.right_children, tree.split_indices,
                   tree.split_conditions, tree.base_weights} :
          Len(arr) = Len(tree.left_children)
    /\ \A i \in DOMAIN tree.left_children :
          /\ tree.split_conditions[i].t = "num"
          /\ tree.base_weights[i].t = "num"
          /\ \/ /\ tree.left_children[i] = N(0 - 1)
                /\ tree.right_children[i] = N(0 - 1)
             \/ /\ IsIntegerIn(tree.left_children[i], i, Len(tree.left_children) - 1)
                /\ IsIntegerIn(tree.right_children[i], i, Len(tree.left_children) - 1)
                /\ IsIntegerIn(tree.split_indices[i], 0, n - 1)

\* the reference evaluation of a well-formed tree at node (0-based), by
\* recursion on the subtrees
RECURSIVE RefEval(_, _, _)
RefEval(tree, features, node) ==
    IF tree.left_children[node + 1] = N(0 - 1)
    THEN tree.base_weights[node + 1]
    ELSE IF Le(features[(tree.split_indices[node + 1].v \div Scale) + 1],
               tree.split_conditions[node + 1])
    THEN RefEval(tree, features, tree.left_children[node + 1].v \div Scale)
    ELSE RefEval(tree, features, tree.right_children[node + 1].v \div Scale)

\* C18: on a well-formed tree and a validated vector the loop starts at node
\* 0, stays on the path of the reference evaluation, throws nothing, and
\* returns the weight the reference evaluation yields.
C18_TraversalIsReferenceEvaluation ==
    (trav.status # "idle" /\ WellFormedTree(TravTree, Len(trav.features)))
        => /\ trav.steps = 0 => trav.nodeIndex = N(0)
           /\ trav.status # "thrown"
           /\ trav.status = "running"
                => /\ IsIntegerIn(trav.nodeIndex, 0, TreeSize(TravTree) - 1)
                   /\ RefEval(TravTree, trav.features, trav.nodeIndex.v \div Scale)
                         = RefEval(TravTree, trav.features, 0)
           /\ trav.status = "returned"
                => trav.result = RefEval(TravTree, trav.features, 0)
           /\ traverseTree(TravTree, trav.features)
                 = Return(<<RefEval(TravTree, trav.features, 0)>>)

\* C18 witness: the loop returned from a leaf below a root whose threshold
\* equals the feature value
C18_Witness ==
    /\ trav.status = "returned"
    /\ trav.steps = 2
    /\ WellFormedTree(TravTree, Len(trav.features))
    /\ ToNumber(trav.features[1]) = TravTree.split_conditions[1]
    /\ trav.result = TravTree.base_weights[2]

\* sum plus the leaf weights traversal reaches in trees, in order
RECURSIVE LeafSum(_, _, _)
LeafSum(trees, features, sum) ==
    IF Len(trees) = 0 THEN sum
    ELSE LeafSum(Tail(trees), features,
                 Add(sum, traverseTree(trees[1], features).val[1]))

\* C19: on a single-output Predictor the raw margin of a call is baseScore
\* plus the leaf weight of every tree, each once, and predict_proba returns
\* the logistic link of that margin.
C19_SingleOutputMarginIsBasePlusLeaves ==
    (/\ LastValidated
     /\ StrictEq(numClasses, N(1))
     /\ AllTreesReturn(model.trees, last.features))
        => /\ LastRaw = Return(<<LeafSum(model.trees, last.features, baseScore)>>)
           /\ last.op = "predict_proba"
                => last.out = Return(TwoClass(sigmoid(
                                  LeafSum(model.trees, last.features, baseScore))))

\* C19 witness: a predict_proba call on a two-tree single-output model found
\* the first tree in the cache
C19_Witness ==
    /\ LastValidated
    /\ last.op = "predict_proba"
    /\ last.out.kind = "return"
    /\ StrictEq(numClasses, N(1))
    /\ Len(model.trees) = 2
    /\ traverseTree(model.trees[2], last.features).val[1] # N(0)
    /\ getCacheKey(0, last.features) \in DOMAIN last.before

\* the sum of the leaf weights of the trees i..Len(trees) that treeInfo
\* assigns to class c (0-based)
RECURSIVE ClassSum(_, _, _, _, _)
ClassSum(trees, treeInfo, features, c, i) ==
    IF i > Len(trees) THEN N(0)
    ELSE IF StrictEq(At(treeInfo, N(i - 1)), N(c))
    THEN Add(traverseTree(trees[i], features).val[1],
             ClassSum(trees, treeInfo, features, c, i + 1))
    ELSE ClassSum(trees, treeInfo, features, c, i + 1)

\* C20: on a multiclass Predictor the raw margins are one accumulator per
\* class, each the sum from 0 of the leaf weights of the trees tree_info
\* assigns to that class; baseScore is not added.
C20_MulticlassMarginsPerClass ==
    (/\ LastValidated
     /\ Gt(numClasses, N(1))
     /\ IsArrayLength(numClasses)
     /\ AllTreesReturn(model.trees, last.features))
        => LastRaw = Return([c \in 1..(numClasses.v \div Scale) |->
                                ClassSum(model.trees, model.tree_info,
                                         last.features, c - 1, 1)])

\* the last DataPreprocessor call was a transform that returned a vector
TransformReturned == plast.op = "transform" /\ plast.out.kind = "return"

\* C11: the vector a successful transform returns has one element per name
\* of orderedFeatures.
C11_TransformKeepsLength ==
    TransformReturned => Len(plast.out.val) = Len(metadata.features)

\* feature k of orderedFeatures is categorical with at least one declared
\* category, and the string of its raw value in input is none of them
IsUnseenCategory(md, input, k) ==
    /\ md.features[k] \in DOMAIN input
    /\ HasOwn(md.categorical_features, md.features[k])
    /\ Len(Get(md.categorical_features, md.features[k], <<>>, <<>>)) > 0
    /\ ~HasOwn(Get(md.categorical_features, md.features[k], <<>>, <<>>),
               StringOf(input[md.features[k]]))

\* the code of the category the metadata document declares first for feature k
FirstDeclaredCode(md, k) ==
    Get(md.categorical_features, md.features[k], <<>>, <<>>)[1].val

\* the errors transform raises for its input: a missing feature, an invalid
\* numeric value
IsInputError(md, out) ==
    /\ out.kind = "throw"
    /\ \/ \E names \in SUBSET {md.features[i] : i \in DOMAIN md.features} :
             out.err = MissingFeaturesMessage(
                           SelectSeq(md.features, LAMBDA f : f \in names))
       \/ \E i \in DOMAIN md.features, value \in InputValues :
             /\ HasOwn(md.numeric_features, md.features[i])
             /\ out.err = InvalidNumericValueMessage(md.features[i], value)

\* C12: an unseen category raises no error of its own, and a transform that
\* returns emits, for that feature, the code of the first category the
\* metadata document declares.
C12_UnseenCategoryFallsBackToFirstDeclared ==
    plast.op = "transform"
        => \A k \in DOMAIN metadata.features :
              IsUnseenCategory(metadata, plast.input, k)
                 => /\ plast.out.kind = "throw" => IsInputError(metadata, plast.out)
                    /\ plast.out.kind = "return"
                          => /\ k \in DOMAIN plast.out.val
                             /\ plast.out.val[k] = FirstDeclaredCode(metadata, k)

\* the names of orderedFeatures that input does not hold, in order
AbsentFeatures(md, input) ==
    SelectSeq(md.features, LAMBDA f : f \notin DOMAIN input)

\* C13: when a name of orderedFeatures is absent from the input record,
\* transform throws the missing-features error listing exactly the absent
\* names, whatever the values of the names present.
C13_AbsentFeaturesAreReported ==
    (plast.op = "transform" /\ Len(AbsentFeatures(metadata, plast.input)) > 0)
        => plast.out = Throw(MissingFeaturesMessage(
                                 AbsentFeatures(metadata, plast.input)))

\* C17: a transform call has the outcome (the vector, or the error) of every
\* earlier transform call of the same Preprocessor on the same input,
\* whatever calls were made in between.
C17_TransformIsDeterministic ==
    (plast.op = "transform" /\ ref.set /\ ref.input = plast.input)
        => plast.out = ref.out

\* C17 witness: a second transform of an input with an unseen category,
\* after the first one and another call in between
C17_Witness ==
    /\ TransformReturned
    /\ ref.set
    /\ ref.earlier
    /\ ref.between
    /\ ref.input = plast.input
    /\ \E k \in DOMAIN metadata.features :
          IsUnseenCategory(metadata, plast.input, k)

\* the number a parameter string of the model document spells
Spelled(s) == NumberOfTrimmed(Trim(s))

IsMulticlassName(name) == name \in {"multi:softmax", "multi:softprob"}

\* C21: numClasses of a constructed Predictor is the number num_class spells
\* under a multiclass objective (2 when num_class is absent) and 1 under any
\* other objective; baseScore is the number base_score spells, 0.5 when
\* base_score is absent.
C21_DerivedFields ==
    instance = "live"
        => /\ numClasses =
                 IF IsMulticlassName(model.objective)
                 THEN (IF model.num_class = <<>> THEN N(2) ELSE Spelled(model.num_class))
                 ELSE N(1)
           /\ baseScore =
                 IF model.base_score = <<>> THEN Tenth(5) ELSE Spelled(model.base_score)
           /\ objective = model.objective

\* C21 witness: a Predictor of a multiclass document without num_class and
\* without base_score
C21_Witness ==
    /\ instance = "live"
    /\ IsMulticlassName(model.objective)
    /\ model.num_class = <<>>
    /\ model.base_score = <<>>
    /\ numClasses = N(2)
    /\ baseScore = Tenth(5)

\* C22: a step taken on a constructed Predictor leaves model, objective,
\* numClasses, numFeatures and baseScore as they were, and the steps of
\* getFeatureImportances and getModelInfo leave the cache as it was.
C22_OnlyTheCacheChanges ==
    [][instance = "live"
          => /\ instance' = "live"
             /\ fields' = fields
             /\ last'.op \in {"getFeatureImportances", "getModelInfo"}
                   => treeCache' = treeCache]_vars

\* C22 witness: getModelInfo returned on a Predictor whose cache holds
\* entries, and the cache still holds them
C22_Witness ==
    /\ last.op = "getModelInfo"
    /\ last.out.kind = "return"
    /\ DOMAIN last.before # {}
    /\ treeCache = last.before

\* C23: in every constructed Predictor the split feature index of every
\* internal node of every tree is an integer in [0, numFeatures).
C23_SplitIndicesInRange ==
    instance = "live"
        => \A t \in DOMAIN model.trees :
              \A i \in InternalNodes(model.trees[t]) :
                 /\ Ge(At(model.trees[t].split_indices, N(i - 1)), N(0))
                 /\ Lt(At(model.trees[t].split_indices, N(i - 1)), numFeatures)

\* the vectors of the model that pass validateFeatures
ValidatedVectors(self) ==
    {f \in FeatureVectors : validateFeatures(self, f).kind = "return"}

\* C27: every cache entry holds the leaf weight an uncached traversal
\* returns for every tree index and validated vector whose key is the
\* entry's key.
C27_CacheHoldsTraversalResults ==
    instance = "live"
        => \A key \in DOMAIN treeCache :
              \A t \in DOMAIN model.trees :
                 \A f \in ValidatedVectors(Self) :
                    getCacheKey(t - 1, f) = key
                       => traverseTree(model.trees[t], f) = Return(<<treeCache[key]>>)

\* C27 witness: the cache of a two-tree Predictor holds, for one validated
\* vector, the entries of both trees, and the two leaf weights differ
C27_Witness ==
    /\ instance = "live"
    /\ Len(model.trees) = 2
    /\ Cardinality(DOMAIN treeCache) >= 2
    /\ \E f \in ValidatedVectors(Self) :
          /\ getCacheKey(0, f) \in DOMAIN treeCache
          /\ getCacheKey(1, f) \in DOMAIN treeCache
          /\ treeCache[getCacheKey(0, f)] # treeCache[getCacheKey(1, f)]

\* C28: what a predict call returns is a class index: 0 or 1 on a
\* single-output Predictor, an integer in [0, numClasses) otherwise.
C28_PredictReturnsClassIndex ==
    (last.op = "predict" /\ last.out.kind = "return")
        => IF StrictEq(numClasses, N(1))
           THEN last.out.val[1] \in {N(0), N(1)}
           ELSE /\ numClasses.t = "num"
                /\ IsIntegerIn(last.out.val[1], 0, (numClasses.v \div Scale) - 1)

\* C29: a predict / predict_proba call that throws leaves the cache as it
\* was before the call.
C29_FailedCallKeepsCache ==
    (last.op \in {"predict", "predict_proba"} /\ last.out.kind = "throw")
        => treeCache = last.before

\* feature k of orderedFeatures is declared numeric (and not categorical) by
\* the metadata document
IsNumericFeature(md, k) ==
    /\ HasOwn(md.numeric_features, md.features[k])
    /\ ~HasOwn(md.categorical_features, md.features[k])

\* the numeric features whose raw value in input coerces to not-a-number
InvalidNumerics(md, input) ==
    {k \in DOMAIN md.features :
        /\ IsNumericFeature(md, k)
        /\ md.features[k] \in DOMAIN input
        /\ IsNaN(NumberOf(input[md.features[k]]))}

FirstOf(S) == CHOOSE k \in S : \A j \in S : k <= j

\* C24: when the raw value of a numeric feature coerces to not-a-number,
\* transform returns no vector; when moreover no name is absent from the
\* input, it throws the invalid-numeric-value error naming the first such
\* feature of orderedFeatures.
C24_InvalidNumericValueThrows ==
    (plast.op = "transform" /\ InvalidNumerics(metadata, plast.input) # {})
        => /\ plast.out.kind = "throw"
           /\ Len(AbsentFeatures(metadata, plast.input)) = 0
                 => plast.out =
                       Throw(InvalidNumericValueMessage(
                           metadata.features[FirstOf(InvalidNumerics(metadata, plast.input))],
                           plast.input[metadata.features[
                               FirstOf(InvalidNumerics(metadata, plast.input))]]))

\* the place, in the vector transform returns, of the element emitted for
\* feature k: the features up to k that a branch of the loop handles
EmitPosition(md, k) ==
    Cardinality({j \in 1..k : \/ In(md.features[j], md.categorical_features)
                              \/ In(md.features[j], md.numeric_features)})

Abs(n) == IF n < 0 THEN 0 - n ELSE n

\* e is (x - center) / scale to the nearest thousandth; not a finite number
\* when a parameter is undefined or scale is 0
IsScaled(e, x, center, scale) ==
    IF x.t = "num" /\ center.t = "num" /\ scale.t = "num" /\ scale.v # 0
    THEN /\ e.t = "num"
         /\ 2 * Abs(e.v * scale.v - (x.v - center.v) * Scale) <= Abs(scale.v)
    ELSE e.t \in {"nan", "inf", "ninf"}

\* C25: the element a transform that returns emits for a numeric feature is
\* (value - mean) / scale under the standard method and (value - min) / scale
\* under minmax, with the feature's own parameters.
C25_NumericFeaturesAreScaled ==
    TransformReturned
        => \A k \in DOMAIN metadata.features :
              (IsNumericFeature(metadata, k) /\ metadata.features[k] \in DOMAIN plast.input)
                 => /\ EmitPosition(metadata, k) \in DOMAIN plast.out.val
                    /\ IsScaled(
                          plast.out.val[EmitPosition(metadata, k)],
                          NumberOf(plast.input[metadata.features[k]]),
                          IF metadata.scaling_method = "standard"
                          THEN Get(metadata.numeric_features, metadata.features[k],
                                   NoParams, NoParams).mean
                          ELSE Get(metadata.numeric_features, metadata.features[k],
                                   NoParams, NoParams).min,
                          Get(metadata.numeric_features, metadata.features[k],
                              NoParams, NoParams).scale)

\* handlePredict was the last thing the form did, and its transform returned
PredictHandledAfterTransform ==
    /\ tester.prediction.set \/ tester.error # ""
    /\ plast.op = "transform"
    /\ plast.out.kind = "return"

\* C26: when orderedFeatures has exactly numFeatures entries, the vector a
\* successful transform hands to the Predictor passes validateFeatures, and
\* handlePredict ends with neither the feature-count nor the
\* invalid-feature-value error.
C26_TransformedVectorPassesValidation ==
    (/\ PredictHandledAfterTransform
     /\ instance = "live"
     /\ StrictEq(numFeatures, N(Len(metadata.features))))
        => /\ validateFeatures(Self, plast.out.val).kind = "return"
           /\ tester.error # InvalidFeatureValueMessage
           /\ tester.error # FeatureCountMessage(numFeatures, plast.out.val)

\* C30: a window is open only while the backend process is running.
C30_WindowOnlyWhileBackendRuns ==
    shell.windows > 0 => shell.backend = "running"

====
